---- MODULE Spec2Model ----
(***************************************************************************)
(* Model of ConsumeSplunkProcessor (src/ConsumeSplunk.py): the NiFi        *)
(* FlowFileSource that advances a FlowFileNumber counter in the cluster    *)
(* state store, builds a "splunk search" command line from its properties, *)
(* runs it and emits the tool's stdout as one flowfile.                    *)
(*                                                                         *)
(* Python strings are sequences of one-character strings, so that          *)
(* rstrip, join, int() and str() are computed as Python computes them.     *)
(* Python's None is the one-element sequence <<"None">>, which no string   *)
(* equals because its element is not a single character.                   *)
(***************************************************************************)
EXTENDS Integers, Sequences, FiniteSets, TLC

\* ------------------------------------------------------------- bounds
\* Total number of create calls explored.
MaxCycles == 4
\* Largest counter value the durable store may hold before the first schedule.
MaxStart == 2
\* create calls the host's threads may start between two onScheduled calls in
\* the concurrent specification.
MaxConcCycles == 2

\* ------------------------------------------------------------- Python values
None == <<"None">>
TypeError == <<"TypeError">>
EmptyStr == <<>>

DigitChars == <<"0", "1", "2", "3", "4", "5", "6", "7", "8", "9">>

IsDigit(c) == \E i \in 1..10 : DigitChars[i] = c

DigitVal(c) == (CHOOSE i \in 1..10 : DigitChars[i] = c) - 1

\* int(s) raises ValueError unless s is a decimal literal.
IntOk(s) == s # None /\ Len(s) > 0 /\ \A i \in 1..Len(s) : IsDigit(s[i])

RECURSIVE StrToInt(_)
StrToInt(s) ==
  IF Len(s) = 0 THEN 0
  ELSE 10 * StrToInt(SubSeq(s, 1, Len(s) - 1)) + DigitVal(s[Len(s)])

RECURSIVE IntToStr(_)
IntToStr(n) ==
  IF n < 10 THEN <<DigitChars[n + 1]>>
  ELSE IntToStr(n \div 10) \o <<DigitChars[(n % 10) + 1]>>

\* Mutant of RStrip: nothing is stripped.
RStrip_none(s, ch) == s

\* Mutant of RStrip: only the last character is stripped.
RStrip_once(s, ch) ==
  IF Len(s) > 0 /\ s[Len(s)] = ch THEN SubSeq(s, 1, Len(s) - 1) ELSE s

\* s.rstrip(ch): every trailing ch is removed.
RECURSIVE RStrip(_, _)
RStrip(s, ch) ==
  IF Len(s) > 0 /\ s[Len(s)] = ch THEN RStrip(SubSeq(s, 1, Len(s) - 1), ch)
  ELSE s

RECURSIVE JoinStr(_, _)
JoinStr(sep, parts) ==
  IF Len(parts) = 0 THEN EmptyStr
  ELSE IF Len(parts) = 1 THEN parts[1]
  ELSE parts[1] \o sep \o JoinStr(sep, Tail(parts))

\* sep.join(parts): TypeError when an item is not a string.
PyJoin(sep, parts) ==
  IF \E i \in 1..Len(parts) : parts[i] = None \/ parts[i] = TypeError
  THEN TypeError
  ELSE JoinStr(sep, parts)

\* dict.get(key, default) on a map whose only key may be FlowFileNumber.
EmptyDict == <<>>
DictGet(d, k, default) == IF k \in DOMAIN d THEN d[k] ELSE default

\* Mutant of Truthy: tests "is not None" where the code tests truthiness.
Truthy_isNotNone(v) == v # None

\* Truthiness of a returned string: neither None nor empty.
Truthy(v) == v # None /\ v # EmptyStr

\* ------------------------------------------------------------- string literals
LitSearch ==
  <<"/", "b", "i", "n", "/", "s", "p", "l", "u", "n", "k", " ",
    "s", "e", "a", "r", "c", "h", " ", "\"", "i", "n", "d", "e", "x", "=">>
LitOutput == <<"\"", " ", "-", "o", "u", "t", "p", "u", "t", " ">>
LitEarliest == <<" ", "e", "a", "r", "l", "i", "e", "s", "t", "=">>
LitLatest == <<" ", "l", "a", "t", "e", "s", "t", "=">>
LitMaxout == <<"-", "m", "a", "x", "o", "u", "t">>
LitAuth == <<"-", "a", "u", "t", "h", " ", "'">>
LitColon == <<":">>
LitQuote == <<"'">>
LitSpace == <<" ">>

\* ------------------------------------------------------------- state
VARIABLES
  store,      \* the durable CLUSTER-scope state map
  state,      \* self.state
  conf,       \* the property values onScheduled copied into self
  scheduled,  \* onScheduled has run
  result,     \* what the last create call since onScheduled returned (or raised)
  log,        \* the effects of the last create call, in order
  proc,       \* the subprocess.run call of the last create call
  cmd,        \* the command string the last create call built
  mem0,       \* self.state at the start of the last create call (or as loaded)
  cycles,     \* create calls since the last onScheduled
  hist,       \* outcome of each setState call since the last onScheduled
  start,      \* self.state as the last onScheduled left it
  readFailed, \* the getState call of the last onScheduled raised StateException
  total,      \* create calls so far
  pc,         \* per host thread: its position inside create
  new_state   \* per host thread: create's local new_state

vars == <<store, state, conf, scheduled, result, log, proc, cmd, mem0, cycles,
          hist, start, readFailed, total, pc, new_state>>

Threads == {1, 2}

NoResult == [kind |-> "none", relationship |-> EmptyStr, contents |-> EmptyStr]
NoProc == [called |-> FALSE, raised |-> FALSE, stdout |-> EmptyStr, stderr |-> EmptyStr]

RaisedResult == [kind |-> "raise", relationship |-> EmptyStr, contents |-> EmptyStr]

NoConf ==
  [splunk_install_dir |-> None, splunk_index_name |-> None, output_format |-> None,
   max_output |-> None, min_date |-> None, max_date |-> None,
   splunk_user |-> None, splunk_pw |-> None]

\* ------------------------------------------------------------- query builder
\* Mutant of buildSearchParams: the start bound is applied last.
buildSearchParams_earliestLast(c) ==
  LET p0 == c.splunk_index_name
      p1 == IF c.max_date # None THEN PyJoin(EmptyStr, <<LitLatest, c.max_date>>) ELSE p0
  IN  IF c.min_date # None THEN PyJoin(EmptyStr, <<LitEarliest, c.min_date>>) ELSE p1

\* buildSearchParams: each bound that is set replaces the whole parameter string.
buildSearchParams(c) ==
  LET p0 == c.splunk_index_name
      p1 == IF c.min_date # None THEN PyJoin(EmptyStr, <<LitEarliest, c.min_date>>) ELSE p0
  IN  IF c.max_date # None THEN PyJoin(EmptyStr, <<LitLatest, c.max_date>>) ELSE p1

\* Mutant of addOptionalProperties: the max-output flag is never appended.
addOptionalProperties_noMaxout(c) ==
  LET o1 == EmptyStr
  IN  IF c.splunk_user # EmptyStr
      THEN IF c.splunk_pw # None
           THEN [value |-> PyJoin(LitSpace, <<o1, LitAuth, c.splunk_user, LitColon,
                                              c.splunk_pw, LitQuote>>),
                 log |-> <<>>]
           ELSE [value |-> o1, log |-> <<"error_password_missing">>]
      ELSE [value |-> o1, log |-> <<>>]

\* addOptionalProperties: the suffix it returns (TypeError when a join raises)
\* and what it logs.
addOptionalProperties(c) ==
  LET o0 == EmptyStr
      o1 == IF c.max_output # None
            THEN PyJoin(LitSpace, <<o0, LitMaxout, c.max_output>>)
            ELSE o0
  IN  IF c.splunk_user # EmptyStr
      THEN IF c.splunk_pw # None
           THEN [value |-> PyJoin(LitSpace, <<o1, LitAuth, c.splunk_user, LitColon,
                                              c.splunk_pw, LitQuote>>),
                 log |-> <<>>]
           ELSE [value |-> o1, log |-> <<"error_password_missing">>]
      ELSE [value |-> o1, log |-> <<>>]

\* The queryString of buildAndRunQuery; TypeError stands for the exception that
\* rstrip on None or a join over None raises.
queryString(c) ==
  IF c.splunk_install_dir = None THEN TypeError
  ELSE PyJoin(EmptyStr, <<RStrip(c.splunk_install_dir, "/"), LitSearch,
                          buildSearchParams(c), LitOutput, c.output_format,
                          addOptionalProperties(c).value>>)

\* ------------------------------------------------------------- extraction
\* What subprocess.run may do: raise, or return stdout and stderr.
ToolOutcomes ==
  {[raised |-> TRUE, stdout |-> EmptyStr, stderr |-> EmptyStr]}
  \cup [raised : {FALSE}, stdout : {EmptyStr, <<"d">>}, stderr : {EmptyStr, <<"e">>}]

\* buildAndRunQuery with the tool behaving as t: the value returned, the
\* reports logged, the command built and the subprocess call made.
buildAndRunQuery(c, t) ==
  LET opt == addOptionalProperties(c)
      q == queryString(c)
      optlog == IF opt.value = TypeError THEN <<>> ELSE opt.log
  IN  IF q = TypeError
      THEN [ret |-> None, log |-> optlog \o <<"error_exception">>,
            cmd |-> None, proc |-> NoProc]
      ELSE IF t.raised
      THEN [ret |-> None, log |-> optlog \o <<"run", "error_exception">>,
            cmd |-> q, proc |-> [called |-> TRUE, raised |-> TRUE,
                                 stdout |-> EmptyStr, stderr |-> EmptyStr]]
      ELSE IF t.stderr = EmptyStr
      THEN [ret |-> t.stdout, log |-> optlog \o <<"run">>,
            cmd |-> q, proc |-> [called |-> TRUE, raised |-> FALSE,
                                 stdout |-> t.stdout, stderr |-> t.stderr]]
      ELSE [ret |-> None, log |-> optlog \o <<"run", "error_tool">>,
            cmd |-> q, proc |-> [called |-> TRUE, raised |-> FALSE,
                                 stdout |-> t.stdout, stderr |-> t.stderr]]

\* The second try block of create: run the query, emit or report.
extract(c, t) ==
  LET r == buildAndRunQuery(c, t)
  IN  IF Truthy(r.ret)
      THEN [result |-> [kind |-> "flowfile", relationship |-> "success",
                        contents |-> r.ret],
            log |-> r.log \o <<"emit">>, cmd |-> r.cmd, proc |-> r.proc]
      ELSE [result |-> NoResult,
            log |-> r.log \o <<"error_unable">>, cmd |-> r.cmd, proc |-> r.proc]

\* ------------------------------------------------------------- cycle state
\* create's first three lines; int() raises ValueError on a value that is no number.
advanceOk(st) == IntOk(DictGet(st, "FlowFileNumber", <<"0">>))

advance(st) ==
  [FlowFileNumber |-> IntToStr(StrToInt(DictGet(st, "FlowFileNumber", <<"0">>)) + 1)]

\* Mutant of commit: self.state is replaced although setState raised.
commit_advancesOnFailure(st, sto, ns, ok) ==
  IF ok
  THEN [store |-> ns, state |-> ns, log |-> <<"setState">>, raised |-> FALSE]
  ELSE [store |-> sto, state |-> ns, log |-> <<"setState", "warn_save">>,
        raised |-> FALSE]

\* Mutant of commit: the except clause is missing, so StateException leaves create.
commit_uncaught(st, sto, ns, ok) ==
  IF ok
  THEN [store |-> ns, state |-> ns, log |-> <<"setState">>, raised |-> FALSE]
  ELSE [store |-> sto, state |-> st, log |-> <<"setState">>, raised |-> TRUE]

\* The first try block of create, setState succeeding (ok) or raising
\* StateException: the store, self.state, the reports, and whether an
\* exception leaves the block.
commit(st, sto, ns, ok) ==
  IF ok
  THEN [store |-> ns, state |-> ns, log |-> <<"setState">>, raised |-> FALSE]
  ELSE [store |-> sto, state |-> st, log |-> <<"setState", "warn_save">>,
        raised |-> FALSE]

\* One whole create call.
create(st, sto, c, ok, t) ==
  IF ~advanceOk(st)
  THEN [store |-> sto, state |-> st,
        result |-> RaisedResult,
        log |-> <<>>, cmd |-> None, proc |-> NoProc, wrote |-> <<>>]
  ELSE LET cm == commit(st, sto, advance(st), ok)
           ex == extract(c, t)
           w == <<[ok |-> ok, value |-> advance(st).FlowFileNumber]>>
       IN  IF cm.raised
           THEN [store |-> cm.store, state |-> cm.state,
                 result |-> RaisedResult,
                 log |-> cm.log, cmd |-> None, proc |-> NoProc, wrote |-> w]
           ELSE [store |-> cm.store, state |-> cm.state, result |-> ex.result,
                 log |-> cm.log \o ex.log, cmd |-> ex.cmd, proc |-> ex.proc,
                 wrote |-> w]

\* ------------------------------------------------------------- configuration
\* The property values the serial specification schedules with.
Configs ==
  [splunk_install_dir : {<<"/", "o", "/">>}, splunk_index_name : {<<"m">>},
   output_format : {<<"c", "s", "v">>}, max_output : {None},
   min_date : {None}, max_date : {None},
   splunk_user : {None, EmptyStr, <<"u">>},
   splunk_pw : {None, EmptyStr, <<"p">>}]

StartCounters == 0..MaxStart \cup {9}

\* What the durable store may hold before this instance first runs.
Stores ==
  {EmptyDict} \cup {[FlowFileNumber |-> IntToStr(n)] : n \in StartCounters}
  \cup {[FlowFileNumber |-> <<"x">>]}

\* ------------------------------------------------------------- operations
Init ==
  /\ store \in Stores
  /\ state = EmptyDict
  /\ conf = NoConf
  /\ scheduled = FALSE
  /\ result = NoResult
  /\ log = <<>>
  /\ proc = NoProc
  /\ cmd = None
  /\ mem0 = EmptyDict
  /\ cycles = 0
  /\ hist = <<>>
  /\ start = EmptyDict
  /\ readFailed = FALSE
  /\ total = 0
  /\ pc = [t \in Threads |-> "idle"]
  /\ new_state = [t \in Threads |-> EmptyDict]

\* Mutant of loadState: a failed read still yields the stored map.
loadState_ignoresFailure(sto, readOk) == sto

\* Mutant of loadState: self.state starts empty whatever the store holds.
loadState_alwaysEmpty(sto, readOk) == EmptyDict

\* self.state after onScheduled's try block: the stored map, or dict() when
\* getState raises StateException.
loadState(sto, readOk) == IF readOk THEN sto ELSE EmptyDict

\* onScheduled: load the state, copy the properties. The host calls it only
\* while no create call is running.
OnScheduled ==
  /\ \A t \in Threads : pc[t] = "idle"
  /\ \E readOk \in BOOLEAN, c \in Configs :
       /\ state' = loadState(store, readOk)
       /\ start' = loadState(store, readOk)
       /\ mem0' = loadState(store, readOk)
       /\ readFailed' = ~readOk
       /\ conf' = c
  /\ scheduled' = TRUE
  /\ cycles' = 0
  /\ hist' = <<>>
  /\ result' = NoResult
  /\ log' = <<>>
  /\ proc' = NoProc
  /\ cmd' = None
  /\ UNCHANGED <<store, total, pc, new_state>>

\* create, run to completion by the host's one thread.
Create ==
  /\ scheduled
  /\ total < MaxCycles
  /\ \E ok \in BOOLEAN, t \in ToolOutcomes :
       \E r \in {create(state, store, conf, ok, t)} :
         /\ store' = r.store
         /\ state' = r.state
         /\ result' = r.result
         /\ log' = r.log
         /\ cmd' = r.cmd
         /\ proc' = r.proc
         /\ hist' = hist \o r.wrote
  /\ mem0' = state
  /\ cycles' = cycles + 1
  /\ total' = total + 1
  /\ UNCHANGED <<conf, scheduled, start, readFailed, pc, new_state>>

Next == OnScheduled \/ Create

Spec == Init /\ [][Next]_vars

\* ------------------------------------------------------------- concurrent host
\* The same create, entered by two host threads: each thread's call is split
\* at the points where another thread can run (before setState, between
\* setState returning and the assignment to self.state, before the query).
\* Here log holds the reports of all create calls since onScheduled.

\* Lines 125-127: read self.state and compute new_state, or raise ValueError.
Begin(t) ==
  /\ scheduled
  /\ pc[t] = "idle"
  /\ total < MaxCycles
  /\ cycles < MaxConcCycles
  /\ cycles' = cycles + 1
  /\ total' = total + 1
  /\ IF advanceOk(state)
     THEN /\ new_state' = [new_state EXCEPT ![t] = advance(state)]
          /\ pc' = [pc EXCEPT ![t] = "set"]
          /\ UNCHANGED result
     ELSE /\ result' = RaisedResult
          /\ UNCHANGED <<new_state, pc>>
  /\ UNCHANGED <<store, state, conf, scheduled, log, proc, cmd, mem0, hist, start,
                 readFailed>>

\* Line 129: setState returns or raises StateException.
SetState(t) ==
  /\ pc[t] = "set"
  /\ \E ok \in BOOLEAN :
       \E cm \in {commit(state, store, new_state[t], ok)} :
         /\ store' = cm.store
         /\ log' = log \o cm.log
         /\ hist' = hist \o <<[ok |-> ok, value |-> new_state[t].FlowFileNumber]>>
         /\ pc' = [pc EXCEPT ![t] = IF cm.raised THEN "idle"
                                    ELSE IF ok THEN "assign" ELSE "query"]
         /\ result' = IF cm.raised THEN RaisedResult ELSE result
  /\ UNCHANGED <<state, conf, scheduled, proc, cmd, mem0, cycles, start, readFailed,
                 total, new_state>>

\* Line 130: self.state = new_state.
Assign(t) ==
  /\ pc[t] = "assign"
  /\ state' = commit(state, store, new_state[t], TRUE).state
  /\ pc' = [pc EXCEPT ![t] = "query"]
  /\ UNCHANGED <<store, conf, scheduled, result, log, proc, cmd, mem0, cycles, hist,
                 start, readFailed, total, new_state>>

\* Lines 133-140: run the query, emit or report.
Query(t) ==
  /\ pc[t] = "query"
  /\ \E o \in ToolOutcomes :
       \E ex \in {extract(conf, o)} :
         /\ result' = ex.result
         /\ log' = log \o ex.log
         /\ cmd' = ex.cmd
         /\ proc' = ex.proc
  /\ pc' = [pc EXCEPT ![t] = "idle"]
  /\ UNCHANGED <<store, state, conf, scheduled, mem0, cycles, hist, start, readFailed,
                 total, new_state>>

NextConc ==
  \/ OnScheduled
  \/ \E t \in Threads : Begin(t) \/ SetState(t) \/ Assign(t) \/ Query(t)

SpecConc == Init /\ [][NextConc]_vars

\* ------------------------------------------------------------- query builder alone
\* The property values the query builder is applied to; the output formats are
\* the allowable values of the descriptor.
BuildConfigs ==
  [splunk_install_dir : {<<"/", "o">>, <<"/", "o", "/">>, <<"/", "o", "/", "/">>},
   splunk_index_name : {<<"m">>},
   output_format : {<<"r", "a", "w">>, <<"c", "s", "v">>, <<"j", "s", "o", "n">>},
   max_output : {None, <<"5">>},
   min_date : {None, <<"-", "1", "d">>},
   max_date : {None, <<"n", "o", "w">>},
   splunk_user : {None, EmptyStr, <<"u">>},
   splunk_pw : {None, EmptyStr, <<"p">>}]

InitBuild ==
  /\ conf \in BuildConfigs
  /\ scheduled = TRUE
  /\ store = EmptyDict
  /\ state = EmptyDict
  /\ result = NoResult
  /\ log = <<>>
  /\ proc = NoProc
  /\ cmd = None
  /\ mem0 = EmptyDict
  /\ cycles = 0
  /\ hist = <<>>
  /\ start = EmptyDict
  /\ readFailed = FALSE
  /\ total = 0
  /\ pc = [t \in Threads |-> "idle"]
  /\ new_state = [t \in Threads |-> EmptyDict]

\* Line 115 alone: build queryString from the properties; cmd is TypeError when
\* the build raises.
BuildCommand ==
  /\ cmd = None
  /\ cmd' = queryString(conf)
  /\ log' = IF addOptionalProperties(conf).value = TypeError THEN <<>>
            ELSE addOptionalProperties(conf).log
  /\ UNCHANGED <<store, state, conf, scheduled, result, proc, mem0, cycles, hist,
                 start, readFailed, total, pc, new_state>>

NextBuild == BuildCommand

SpecBuild == InitBuild /\ [][NextBuild]_vars

\* ------------------------------------------------------------- properties
\* The counter a state map holds, as create reads it.
Num(d) == StrToInt(DictGet(d, "FlowFileNumber", <<"0">>))

Count(ev, sq) == Cardinality({i \in 1..Len(sq) : sq[i] = ev})

Pos(ev, sq) == CHOOSE i \in 1..Len(sq) : sq[i] = ev

\* The tool ran and returned non-empty stdout with empty stderr.
CleanOutput ==
  proc.called /\ ~proc.raised /\ proc.stderr = EmptyStr /\ proc.stdout # EmptyStr

\* C1. Starting from a missing or unreadable store, after k create calls of
\* which the first one's state write succeeded, the in-memory FlowFileNumber
\* equals k, whatever the later writes did.
C1_CounterEqualsCycles ==
  (start = EmptyDict /\ cycles >= 1 /\ Len(hist) >= 1 /\ hist[1].ok)
    => (advanceOk(state) /\ Num(state) = cycles)

C3_MissingPasswordStopsCycle ==
  (/\ cycles > 0
   /\ conf.splunk_user # None /\ conf.splunk_user # EmptyStr
   /\ (conf.splunk_pw = None \/ conf.splunk_pw = EmptyStr))
    => (cmd = None /\ ~proc.called /\ result.kind # "flowfile")

\* C4. From counter 0, with the state write succeeding in cycle 1, failing in
\* cycle 2 and succeeding in cycle 3, the store holds FlowFileNumber = 3.
C4_StoreReflectsThirdCycle ==
  (/\ advanceOk(start) /\ Num(start) = 0
   /\ cycles = 3 /\ Len(hist) = 3
   /\ hist[1].ok /\ ~hist[2].ok /\ hist[3].ok)
    => store = [FlowFileNumber |-> <<"3">>]

\* The stored FlowFileNumber as a number: 0 for a store without the key, -1 for
\* a value that is no number (create never writes one).
StoreNum(d) ==
  IF "FlowFileNumber" \notin DOMAIN d THEN 0
  ELSE IF IntOk(d.FlowFileNumber) THEN StrToInt(d.FlowFileNumber) ELSE -1

\* C5 as stated. Across cycles and restarts, state-read and state-write
\* failures included, the stored FlowFileNumber never decreases.
C5_StoreNeverDecreases == [][StoreNum(store') >= StoreNum(store)]_vars

\* C5 amended. The stored FlowFileNumber never decreases in a step that
\* follows a schedule-start whose state read succeeded, state-write failures
\* included.
C5_StoreNeverDecreasesAfterGoodRead ==
  [][~readFailed' => StoreNum(store') >= StoreNum(store)]_vars

C5_Witness ==
  /\ ~readFailed
  /\ Len(hist) >= 2 /\ ~hist[1].ok /\ hist[2].ok
  /\ StoreNum(start) >= 1
  /\ StoreNum(store) = StoreNum(start) + 1

\* C6. A cycle whose state write failed still returns normally, still runs the
\* command its configuration builds, and still emits the tool's clean output.
C6_SaveFailureStillExtracts ==
  (cycles > 0 /\ Len(hist) = cycles /\ ~hist[cycles].ok) =>
    /\ result.kind # "raise"
    /\ queryString(conf) # TypeError => (proc.called /\ cmd = queryString(conf))
    /\ CleanOutput =>
         (result.kind = "flowfile" /\ result.contents = proc.stdout)

C6_Witness ==
  /\ cycles > 0 /\ Len(hist) = cycles /\ ~hist[cycles].ok
  /\ Count("warn_save", log) = 1
  /\ CleanOutput
  /\ result.kind = "flowfile"

\* C7. In a cycle that ends in ToolFailure, LaunchFailure or Empty, the state
\* write was attempted before the tool was invoked and the counter is left
\* advanced by exactly 1 over its value at the start of the cycle.
C7_CounterAdvancesWhateverTheOutcome ==
  (cycles > 0 /\ proc.called /\ result.kind = "none") =>
    /\ Count("setState", log) = 1 /\ Count("run", log) = 1
    /\ Pos("setState", log) < Pos("run", log)
    /\ advanceOk(state) /\ advanceOk(mem0)
    /\ Num(state) = Num(mem0) + 1

\* C8. No error of a cycle leaves create: it always returns normally.
C8_CreateNeverRaises == result.kind # "raise"

\* C9. When two create calls have run since the schedule-start and both state
\* writes succeeded, the counter is advanced by 2 and the two calls committed
\* different values.
C9_NoLostUpdate ==
  (/\ \A t \in Threads : pc[t] = "idle"
   /\ cycles = 2 /\ Len(hist) = 2 /\ hist[1].ok /\ hist[2].ok)
    => (/\ StoreNum(store) = StoreNum(start) + 2
        /\ hist[1].value # hist[2].value)

\* ------------------------------------------------------------- reading a command
LitIndexEq == <<"i", "n", "d", "e", "x", "=">>
LitDashOutput == <<"-", "o", "u", "t", "p", "u", "t", " ">>
LitEarliestBare == <<"e", "a", "r", "l", "i", "e", "s", "t", "=">>
LitLatestBare == <<"l", "a", "t", "e", "s", "t", "=">>

Built == cmd # None /\ cmd # TypeError

\* Where pat occurs in s.
Occurrences(pat, s) ==
  {i \in 1..(Len(s) - Len(pat) + 1) : SubSeq(s, i, i + Len(pat) - 1) = pat}

Least(S) == CHOOSE i \in S : \A j \in S : i <= j

\* The text that follows the first occurrence of pat in s, up to the first
\* character of stops (or the end of s).
ValueAfter(pat, s, stops) ==
  LET from == Least(Occurrences(pat, s)) + Len(pat)
      ends == {k \in from..Len(s) : s[k] \in stops} \cup {Len(s) + 1}
  IN  SubSeq(s, from, Least(ends) - 1)

\* The value of the command's index= clause: up to the closing double quote.
IndexClause(s) == ValueAfter(LitIndexEq, s, {"\""})

LitDashAuth == <<"-", "a", "u", "t", "h">>

\* The build was attempted: cmd holds a command or TypeError.
Attempted == cmd # None

UserGiven == conf.splunk_user # None /\ conf.splunk_user # EmptyStr

\* C11. The built command contains the authentication flag if and only if the
\* username is non-empty and the password is set; the flag then reads
\* -auth '<user>:<password>'; with the username unset or empty the command is
\* built without the flag.
C11_AuthFlagForm ==
  Attempted =>
    /\ ~UserGiven => (Built /\ Occurrences(LitDashAuth, cmd) = {})
    /\ Built =>
         /\ (Occurrences(LitDashAuth, cmd) # {}) <=> (UserGiven /\ conf.splunk_pw # None)
         /\ Occurrences(LitDashAuth, cmd) # {} =>
              Occurrences(<<" ">> \o LitAuth \o conf.splunk_user \o LitColon
                            \o conf.splunk_pw \o LitQuote, cmd) # {}

NoOptionalConf ==
  /\ conf.min_date = None /\ conf.max_date = None /\ conf.max_output = None
  /\ conf.splunk_user = None /\ conf.splunk_pw = None

\* C13. With index name and output format set and no time bounds, no max
\* output and no credentials, a cycle invokes the tool exactly once, with the
\* command <install path>/bin/splunk search "index=<index>" -output <format>
\* and nothing after it.
C13_PlainCommandRunOnce ==
  (cycles > 0 /\ NoOptionalConf) =>
    /\ Count("run", log) = 1
    /\ proc.called
    /\ cmd = RStrip(conf.splunk_install_dir, "/") \o LitSearch
               \o conf.splunk_index_name \o LitOutput \o conf.output_format

\* The reports that classify a cycle: the emission, the "unable to export"
\* report of an empty extraction, the tool's stderr report, the report of an
\* exception.
OutcomeReports ==
  Count("emit", log) + Count("error_unable", log) + Count("error_tool", log)
    + Count("error_exception", log)

\* C14. Every cycle that create returns from is reported as exactly one of
\* Emitted, Empty, ToolFailure, LaunchFailure: a failed cycle does not also
\* carry the report of the Empty outcome.
C14_OneReportPerCycle ==
  (cycles > 0 /\ result.kind # "raise") =>
    /\ OutcomeReports = 1
    /\ (Count("error_tool", log) + Count("error_exception", log) > 0)
         => Count("error_unable", log) = 0

\* C15. In every cycle the state write is attempted exactly once and the tool
\* is invoked at most once.
C15_NoRetry ==
  cycles > 0 => (Count("setState", log) = 1 /\ Count("run", log) <= 1)

EndsInSlash(s) == Len(s) > 0 /\ s[Len(s)] = "/"

\* C16. For an install path P that does not end in '/', the command built
\* from P is the command built from P followed by one '/'.
C16_TrailingSlashIrrelevant ==
  (Attempted /\ ~EndsInSlash(conf.splunk_install_dir)) =>
    cmd = queryString([conf EXCEPT !.splunk_install_dir = @ \o <<"/">>])

C16_Witness ==
  /\ Built
  /\ conf.splunk_install_dir = <<"/", "o">>
  /\ cmd = queryString([conf EXCEPT !.splunk_install_dir = <<"/", "o", "/">>])

\* C17. After a schedule-start whose state read failed, the in-memory state is
\* empty until a state write succeeds, and the first write that succeeds
\* stores FlowFileNumber = 1.
C17_FailedReadStartsAtOne ==
  (scheduled /\ readFailed) =>
    /\ start = EmptyDict
    /\ (\A i \in 1..Len(hist) : ~hist[i].ok) => state = EmptyDict
    /\ \A i \in 1..Len(hist) :
         (hist[i].ok /\ \A j \in 1..(i - 1) : ~hist[j].ok) =>
           /\ hist[i].value = <<"1">>
           /\ i = Len(hist) => store = [FlowFileNumber |-> <<"1">>]

C17_Witness ==
  /\ scheduled /\ readFailed
  /\ Len(hist) = 2 /\ ~hist[1].ok /\ hist[2].ok
  /\ store = [FlowFileNumber |-> <<"1">>]

\* C18. After a schedule-start whose state read succeeded, with serial cycles
\* and any mix of write outcomes, the in-memory state equals the stored one.
C18_MemoryEqualsStore == (scheduled /\ ~readFailed) => state = store

C18_Witness ==
  /\ scheduled /\ ~readFailed
  /\ cycles = 3 /\ Len(hist) = 3
  /\ hist[1].ok /\ ~hist[2].ok /\ hist[3].ok
  /\ state = store

\* C19 as stated. For an install path ending in two or more '/', only the
\* last one is removed before /bin/splunk is appended.
C19_OnlyLastSlashStripped ==
  (/\ Built
   /\ Len(conf.splunk_install_dir) >= 2
   /\ EndsInSlash(conf.splunk_install_dir)
   /\ conf.splunk_install_dir[Len(conf.splunk_install_dir) - 1] = "/")
    => SubSeq(cmd, 1, Len(conf.splunk_install_dir) - 1 + Len(LitSearch))
         = SubSeq(conf.splunk_install_dir, 1, Len(conf.splunk_install_dir) - 1)
             \o LitSearch

\* C19 amended. Every trailing '/' of the install path is removed: the command
\* starts with the longest prefix of the path that does not end in '/',
\* followed by /bin/splunk.
C19_AllTrailingSlashesStripped ==
  Built =>
    \E k \in 0..Len(conf.splunk_install_dir) :
      /\ k > 0 => conf.splunk_install_dir[k] # "/"
      /\ \A i \in (k + 1)..Len(conf.splunk_install_dir) :
           conf.splunk_install_dir[i] = "/"
      /\ SubSeq(cmd, 1, k + Len(LitSearch))
           = SubSeq(conf.splunk_install_dir, 1, k) \o LitSearch

C19_Witness ==
  /\ Built
  /\ conf.splunk_install_dir = <<"/", "o", "/", "/">>
  /\ SubSeq(cmd, 1, 2 + Len(LitSearch)) = <<"/", "o">> \o LitSearch

====
